---- MODULE Spec2Model ----
(***************************************************************************)
(* Model of src/handlers/import.rs: the import_data handler of the vault   *)
(* worker.  A call builds one INSERT OR IGNORE statement per folder entry, *)
(* submits them as one D1 batch, applies the folder relationships to the   *)
(* in-memory cipher entries, validates and materializes every cipher entry *)
(* and submits the cipher statements as a second batch.                    *)
(*                                                                         *)
(* The handler is async: the two `db.batch(..).await` are its only         *)
(* suspension points, so a call is split into the steps between them and   *)
(* calls of different requests interleave at those points only.            *)
(*                                                                         *)
(* Storage is the pair of tables `folders` and `ciphers`, kept as the      *)
(* sequence of their rows in insertion order; both have `id` as primary    *)
(* key, which is what INSERT OR IGNORE ignores on.  A D1 batch is one      *)
(* transaction: it commits all its statements or fails and commits none.   *)
(* `db::get_db` (line 21) only looks up the database binding of the        *)
(* deployed worker and `bind` (lines 37, 100) only receives strings,       *)
(* numbers, booleans and NULL; both are taken to succeed.                  *)
(***************************************************************************)
EXTENDS Integers, Sequences, FiniteSets, TLC

\* ------------------------------------------------------------------ bounds
MaxFolders == 2     \* folder entries per bundle
MaxCiphers == 2     \* cipher entries per bundle
MaxEntries == 2     \* folder plus cipher entries per bundle (concurrent specification)
MaxRels == 2        \* relationship pairs per bundle (single-call specification)
MaxSmall == 1       \* entries of each kind per bundle (sequential specification)
MaxCalls == 2       \* import_data calls started in one behaviour
MaxClock == 1       \* largest clock reading (milliseconds)

\* ----------------------------------------------------------------- domains
Procs == {"p1", "p2"}                \* request slots of the worker isolate
Users == {"u1", "u2"}                \* claims.sub values
FolderIds == {"f1", "f2"}            \* client-chosen folder ids
FolderNames == {"a", "b"}            \* (encrypted) folder names
NULL == "NULL"                       \* None / JsValue::NULL
Unencodable == "unencodable"         \* a substructure serde_json cannot encode

SeqsUpTo(S, n) == UNION {[1..k -> S] : k \in 0..n}

\* models::import::ImportRequest and its entries, as the handler reads them
ImportFolder == [id : FolderIds, name : FolderNames]

ImportCipher ==
    [encrypted_for : Users, name : {"n1"}, fields : {"enc", Unencodable},
     organization_id : {NULL}, type : {"login"}, favorite : {FALSE},
     folder_id : {NULL, "f0"}]

\* entries of the concurrent specification: encodable, no client folder_id
PlainCipher == {c \in ImportCipher : c.fields = "enc" /\ c.folder_id = NULL}

\* relationship.key indexes ciphers, relationship.value indexes folders
\* (0-based); one position past the longest sequence is always out of range
Relationship == [key : 0..MaxCiphers, value : 0..MaxFolders]

ImportRequest(FS, CS, RS) ==
    [folders : FS, ciphers : CS, folder_relationships : RS]

\* bundles of the concurrent specification
Bundles ==
    {b \in ImportRequest(SeqsUpTo(ImportFolder, MaxFolders),
                         SeqsUpTo(PlainCipher, MaxCiphers), {<<>>}) :
        Len(b.folders) + Len(b.ciphers) <= MaxEntries}

\* bundles of the single-call specification
OneFolders == {f \in ImportFolder : f.name = "a"}

OneBundles ==
    ImportRequest(SeqsUpTo(OneFolders, MaxFolders),
                  SeqsUpTo(ImportCipher, MaxCiphers),
                  SeqsUpTo(Relationship, MaxRels))

\* bundles of the sequential specification
SmallBundles ==
    ImportRequest(SeqsUpTo(OneFolders, MaxSmall),
                  SeqsUpTo(ImportCipher, MaxSmall),
                  SeqsUpTo(Relationship, MaxSmall))

EmptyPayload == [folders |-> <<>>, ciphers |-> <<>>, folder_relationships |-> <<>>]

\* ------------------------------------------------------------------- state
VARIABLES
    folders,        \* table folders: rows in insertion order
    ciphers,        \* table ciphers: rows in insertion order
    clock,          \* last reading of Utc::now()
    uuid,           \* number of ids Uuid::new_v4 has minted
    ncalls,         \* calls started
    pc,             \* per request: idle, folder_batch, cipher_batch, done
    sub,            \* claims.sub of the call
    payload,        \* the submitted ImportRequest
    now,            \* the call's formatted timestamp
    folder_stmts,   \* bound folder statements
    cipher_stmts,   \* bound cipher statements
    result,         \* the call's Result: Ok, BadRequest, Internal, Database
    log,            \* history: the db.batch invocations of the call
    wrote           \* history: the rows the call's batches inserted

vars == <<folders, ciphers, clock, uuid, ncalls, pc, sub, payload, now,
          folder_stmts, cipher_stmts, result, log, wrote>>

NoWrites == [folders |-> <<>>, ciphers |-> <<>>]

Init ==
    /\ folders = <<>>
    /\ ciphers = <<>>
    /\ clock = 0
    /\ uuid = 0
    /\ ncalls = 0
    /\ pc = [p \in Procs |-> "idle"]
    /\ sub = [p \in Procs |-> NULL]
    /\ payload = [p \in Procs |-> EmptyPayload]
    /\ now = [p \in Procs |-> 0]
    /\ folder_stmts = [p \in Procs |-> <<>>]
    /\ cipher_stmts = [p \in Procs |-> <<>>]
    /\ result = [p \in Procs |-> NULL]
    /\ log = [p \in Procs |-> <<>>]
    /\ wrote = [p \in Procs |-> NoWrites]

\* ---------------------------------------------------------- pure functions
\* Vec::get / get_mut with a 0-based index
InRange(s, i) == i < Len(s)

Get(s, i) == s[i + 1]

\* lines 29-35: the row of one folder entry
Folder(import_folder, claims_sub, t) ==
    [id |-> import_folder.id, user_id |-> claims_sub,
     name |-> import_folder.name, created_at |-> t, updated_at |-> t]

\* variant: the last folder entry gets no statement
FolderStmtsShort(fs, claims_sub, t) ==
    [i \in 1..(Len(fs) - 1) |-> Folder(fs[i], claims_sub, t)]

\* lines 28-44: one statement per folder entry, in order
FolderStmts(fs, claims_sub, t) ==
    [i \in 1..Len(fs) |-> Folder(fs[i], claims_sub, t)]

\* variant: key read as the folder index and value as the cipher index
ApplyRelationshipSwapped(cs, fs, relationship) ==
    IF InRange(cs, relationship.value) /\ InRange(fs, relationship.key)
    THEN [cs EXCEPT ![relationship.value + 1].folder_id =
                        Get(fs, relationship.key).id]
    ELSE cs

\* variant: a folder index out of range clears the cipher's folder_id
ApplyRelationshipClearing(cs, fs, relationship) ==
    IF InRange(cs, relationship.key)
    THEN [cs EXCEPT ![relationship.key + 1].folder_id =
                        IF InRange(fs, relationship.value)
                        THEN Get(fs, relationship.value).id ELSE NULL]
    ELSE cs

\* lines 51-55: one relationship applied to the cipher entries
ApplyRelationship(cs, fs, relationship) ==
    IF InRange(cs, relationship.key) /\ InRange(fs, relationship.value)
    THEN [cs EXCEPT ![relationship.key + 1].folder_id =
                        Get(fs, relationship.value).id]
    ELSE cs

\* variant: the relationships applied last to first
RECURSIVE ResolveRelationshipsReversed(_, _, _)
ResolveRelationshipsReversed(cs, fs, rels) ==
    IF rels = <<>> THEN cs
    ELSE ApplyRelationship(ResolveRelationshipsReversed(cs, fs, Tail(rels)),
                           fs, Head(rels))

\* lines 50-56: the relationships applied in submission order
RECURSIVE ResolveRelationships(_, _, _)
ResolveRelationships(cs, fs, rels) ==
    IF rels = <<>> THEN cs
    ELSE ResolveRelationships(ApplyRelationship(cs, fs, Head(rels)), fs, Tail(rels))

\* variant: no ownership check
OwnedByAnyone(import_cipher, claims_sub) == TRUE

\* line 62: the ownership check of one entry
OwnedBy(import_cipher, claims_sub) == import_cipher.encrypted_for = claims_sub

\* lines 66-78: CipherData and serde_json::to_value, which fails on a
\* substructure it cannot encode
CipherData(import_cipher) ==
    [name |-> import_cipher.name, fields |-> import_cipher.fields]

Encodable(import_cipher) == import_cipher.fields # Unencodable

\* line 98: serde_json::to_string of the value (total on a Value)
ToJson(cipher_data) == <<"json", cipher_data.name, cipher_data.fields>>

\* variant: an id that is not fresh
StaleUuid(n) == <<"uuid", 0>>

\* line 81: Uuid::new_v4, the n-th id minted
NewUuid(n) == <<"uuid", n>>

\* variant: updated_at taken from a later clock reading
CipherLateStamp(import_cipher, claims_sub, t, n) ==
    [id |-> NewUuid(n), user_id |-> claims_sub,
     organization_id |-> import_cipher.organization_id,
     type |-> import_cipher.type,
     data |-> ToJson(CipherData(import_cipher)),
     favorite |-> import_cipher.favorite,
     folder_id |-> import_cipher.folder_id,
     created_at |-> t, updated_at |-> t + 1]

\* lines 80-96: the row of one cipher entry
Cipher(import_cipher, claims_sub, t, n) ==
    [id |-> NewUuid(n), user_id |-> claims_sub,
     organization_id |-> import_cipher.organization_id,
     type |-> import_cipher.type,
     data |-> ToJson(CipherData(import_cipher)),
     favorite |-> import_cipher.favorite,
     folder_id |-> import_cipher.folder_id,
     created_at |-> t, updated_at |-> t]

\* variant: a mismatching entry is skipped instead of ending the import
RECURSIVE CipherLoopSkipping(_, _, _, _, _, _)
CipherLoopSkipping(cs, i, claims_sub, t, n, stmts) ==
    IF i > Len(cs) THEN [result |-> "Ok", stmts |-> stmts, minted |-> n]
    ELSE IF ~OwnedBy(cs[i], claims_sub)
         THEN CipherLoopSkipping(cs, i + 1, claims_sub, t, n, stmts)
    ELSE IF ~Encodable(cs[i])
         THEN [result |-> "Internal", stmts |-> <<>>, minted |-> n]
    ELSE CipherLoopSkipping(cs, i + 1, claims_sub, t, n + 1,
                            Append(stmts, Cipher(cs[i], claims_sub, t, n + 1)))

\* variant: the entry is serialized before its owner is checked
RECURSIVE CipherLoopEncodeFirst(_, _, _, _, _, _)
CipherLoopEncodeFirst(cs, i, claims_sub, t, n, stmts) ==
    IF i > Len(cs) THEN [result |-> "Ok", stmts |-> stmts, minted |-> n]
    ELSE IF ~Encodable(cs[i])
         THEN [result |-> "Internal", stmts |-> <<>>, minted |-> n]
    ELSE IF ~OwnedBy(cs[i], claims_sub)
         THEN [result |-> "BadRequest", stmts |-> <<>>, minted |-> n]
    ELSE CipherLoopEncodeFirst(cs, i + 1, claims_sub, t, n + 1,
                               Append(stmts, Cipher(cs[i], claims_sub, t, n + 1)))

\* variant: a serialization fault reported as a rejected request
RECURSIVE CipherLoopWrongKind(_, _, _, _, _, _)
CipherLoopWrongKind(cs, i, claims_sub, t, n, stmts) ==
    IF i > Len(cs) THEN [result |-> "Ok", stmts |-> stmts, minted |-> n]
    ELSE IF ~OwnedBy(cs[i], claims_sub)
         THEN [result |-> "BadRequest", stmts |-> <<>>, minted |-> n]
    ELSE IF ~Encodable(cs[i])
         THEN [result |-> "BadRequest", stmts |-> <<>>, minted |-> n]
    ELSE CipherLoopWrongKind(cs, i + 1, claims_sub, t, n + 1,
                             Append(stmts, Cipher(cs[i], claims_sub, t, n + 1)))

\* lines 61-111: the cipher loop over entries i..Len(cs), with `stmts` built
\* and `n` ids minted so far; the first failing entry ends it
RECURSIVE CipherLoop(_, _, _, _, _, _)
CipherLoop(cs, i, claims_sub, t, n, stmts) ==
    IF i > Len(cs) THEN [result |-> "Ok", stmts |-> stmts, minted |-> n]
    ELSE IF ~OwnedBy(cs[i], claims_sub)
         THEN [result |-> "BadRequest", stmts |-> <<>>, minted |-> n]
    ELSE IF ~Encodable(cs[i])
         THEN [result |-> "Internal", stmts |-> <<>>, minted |-> n]
    ELSE CipherLoop(cs, i + 1, claims_sub, t, n + 1,
                    Append(stmts, Cipher(cs[i], claims_sub, t, n + 1)))

\* variant: the batch is submitted whatever it holds
AlwaysSubmit(stmts) == TRUE

\* lines 46 and 113: a batch is submitted only when it has statements
ShouldSubmit(stmts) == stmts # <<>>

\* INSERT OR IGNORE of one row: a row with the same id keeps the new one out
HasId(table, id) == \E i \in 1..Len(table) : table[i].id = id

\* variant: INSERT OR REPLACE, the new row takes the place of the old one
InsertOrReplace(table, row) ==
    IF HasId(table.rows, row.id)
    THEN [table EXCEPT
            !.rows = [i \in 1..Len(@) |-> IF @[i].id = row.id THEN row ELSE @[i]],
            !.inserted = Append(@, row)]
    ELSE [table EXCEPT !.rows = Append(@, row), !.inserted = Append(@, row)]

\* variant: an INSERT on a table without the primary key
InsertAlways(table, row) ==
    [table EXCEPT !.rows = Append(@, row), !.inserted = Append(@, row)]

\* variant: a plain INSERT, whose primary-key conflict fails the statement
InsertOrFail(table, row) ==
    IF HasId(table.rows, row.id)
    THEN [table EXCEPT !.ok = FALSE]
    ELSE [table EXCEPT !.rows = Append(@, row), !.inserted = Append(@, row)]

InsertOrIgnore(table, row) ==
    IF HasId(table.rows, row.id)
    THEN table
    ELSE [table EXCEPT !.rows = Append(@, row), !.inserted = Append(@, row)]

\* db.batch: the statements in order; `rows` is the table, `inserted` the rows
\* that went in, `ok` whether every statement ran without a constraint error
RECURSIVE RunBatch(_, _)
RunBatch(table, stmts) ==
    IF stmts = <<>> THEN table
    ELSE RunBatch(InsertOrIgnore(table, Head(stmts)), Tail(stmts))

\* variant: the batch replaces the table's rows
BatchReplacing(rows, stmts) ==
    RunBatch([rows |-> <<>>, inserted |-> <<>>, ok |-> TRUE], stmts)

Batch(rows, stmts) ==
    RunBatch([rows |-> rows, inserted |-> <<>>, ok |-> TRUE], stmts)

\* ----------------------------------------------------------------- actions
LogEntry(batch, stmts) ==
    [batch |-> batch, n |-> Len(stmts), outcome |-> "pending", conflict |-> FALSE]

Submitted(l, batch, stmts) == Append(l, LogEntry(batch, stmts))

Settled(l, outcome, conflict) ==
    [l EXCEPT ![Len(l)].outcome = outcome, ![Len(l)].conflict = conflict]

\* lines 50-117 run without suspension up to the cipher batch: the resolver,
\* the cipher loop and either an early return, the submission of the cipher
\* batch or Ok.  `l` is the call's log so far.
CipherPhase(p, pl, claims_sub, t, l) ==
    LET resolved == ResolveRelationships(pl.ciphers, pl.folders,
                                         pl.folder_relationships)
        built == CipherLoop(resolved, 1, claims_sub, t, uuid, <<>>)
    IN  /\ uuid' = built.minted
        /\ IF built.result # "Ok"
           THEN /\ pc' = [pc EXCEPT ![p] = "done"]
                /\ result' = [result EXCEPT ![p] = built.result]
                /\ cipher_stmts' = [cipher_stmts EXCEPT ![p] = <<>>]
                /\ log' = [log EXCEPT ![p] = l]
           ELSE IF ShouldSubmit(built.stmts)
           THEN /\ pc' = [pc EXCEPT ![p] = "cipher_batch"]
                /\ result' = result
                /\ cipher_stmts' = [cipher_stmts EXCEPT ![p] = built.stmts]
                /\ log' = [log EXCEPT ![p] = Submitted(l, "ciphers", built.stmts)]
           ELSE /\ pc' = [pc EXCEPT ![p] = "done"]
                /\ result' = [result EXCEPT ![p] = "Ok"]
                /\ cipher_stmts' = [cipher_stmts EXCEPT ![p] = <<>>]
                /\ log' = [log EXCEPT ![p] = l]

\* line 22: Utc::now(), formatted to the millisecond; the wall clock has not
\* gone back since the last reading
ClockReadings == {t \in clock..(clock + 1) : t <= MaxClock}

\* lines 16-48: a call starts, reads the clock once, binds the folder
\* statements and either awaits the folder batch or, with no folder entry,
\* goes straight on to the cipher phase
import_data(p, claims_sub, pl, t) ==
    /\ pc[p] = "idle"
    /\ ncalls' = ncalls + 1
    /\ clock' = t
    /\ sub' = [sub EXCEPT ![p] = claims_sub]
    /\ payload' = [payload EXCEPT ![p] = pl]
    /\ now' = [now EXCEPT ![p] = t]
    /\ folder_stmts' = [folder_stmts EXCEPT ![p] = FolderStmts(pl.folders, claims_sub, t)]
    /\ wrote' = [wrote EXCEPT ![p] = NoWrites]
    /\ IF ShouldSubmit(FolderStmts(pl.folders, claims_sub, t))
       THEN /\ pc' = [pc EXCEPT ![p] = "folder_batch"]
            /\ log' = [log EXCEPT ![p] =
                          Submitted(<<>>, "folders", FolderStmts(pl.folders, claims_sub, t))]
            /\ UNCHANGED <<uuid, result, cipher_stmts>>
       ELSE CipherPhase(p, pl, claims_sub, t, <<>>)
    /\ UNCHANGED <<folders, ciphers>>

\* line 47, Ok: the folder batch commits and the call runs on to line 113
FolderBatchOk(p) ==
    LET run == Batch(folders, folder_stmts[p])
    IN  /\ pc[p] = "folder_batch"
        /\ run.ok
        /\ folders' = run.rows
        /\ wrote' = [wrote EXCEPT ![p].folders = run.inserted]
        /\ CipherPhase(p, payload[p], sub[p], now[p], Settled(log[p], "ok", FALSE))
        /\ UNCHANGED <<ciphers, clock, ncalls, sub, payload, now, folder_stmts>>

\* variant: a failed folder batch is submitted once more
FolderBatchErrRetry(p) ==
    /\ pc[p] = "folder_batch"
    /\ IF Len(log[p]) = 1
       THEN /\ log' = [log EXCEPT ![p] =
                          Submitted(Settled(@, "err", FALSE), "folders",
                                    folder_stmts[p])]
            /\ UNCHANGED <<pc, result>>
       ELSE /\ pc' = [pc EXCEPT ![p] = "done"]
            /\ result' = [result EXCEPT ![p] = "Database"]
            /\ log' = [log EXCEPT ![p] = Settled(@, "err", FALSE)]
    /\ UNCHANGED <<folders, ciphers, clock, uuid, ncalls, sub, payload, now,
                   folder_stmts, cipher_stmts, wrote>>

\* variant: the folder batch's error is dropped and the call goes on
FolderBatchErrSwallowed(p) ==
    /\ pc[p] = "folder_batch"
    /\ CipherPhase(p, payload[p], sub[p], now[p], Settled(log[p], "err", FALSE))
    /\ UNCHANGED <<folders, ciphers, clock, ncalls, sub, payload, now,
                   folder_stmts, wrote>>

\* line 47, Err: storage fails the batch (or a statement hits a constraint);
\* nothing is committed and the call returns AppError::Database
FolderBatchErr(p) ==
    /\ pc[p] = "folder_batch"
    /\ pc' = [pc EXCEPT ![p] = "done"]
    /\ result' = [result EXCEPT ![p] = "Database"]
    /\ log' = [log EXCEPT ![p] =
                  Settled(@, "err", ~Batch(folders, folder_stmts[p]).ok)]
    /\ UNCHANGED <<folders, ciphers, clock, uuid, ncalls, sub, payload, now,
                   folder_stmts, cipher_stmts, wrote>>

\* line 114, Ok: the cipher batch commits and the call returns Ok (line 117)
CipherBatchOk(p) ==
    LET run == Batch(ciphers, cipher_stmts[p])
    IN  /\ pc[p] = "cipher_batch"
        /\ run.ok
        /\ ciphers' = run.rows
        /\ wrote' = [wrote EXCEPT ![p].ciphers = run.inserted]
        /\ pc' = [pc EXCEPT ![p] = "done"]
        /\ result' = [result EXCEPT ![p] = "Ok"]
        /\ log' = [log EXCEPT ![p] = Settled(@, "ok", FALSE)]
        /\ UNCHANGED <<folders, clock, uuid, ncalls, sub, payload, now,
                       folder_stmts, cipher_stmts>>

\* line 114, Err: the cipher batch fails, nothing of it is committed
CipherBatchErr(p) ==
    /\ pc[p] = "cipher_batch"
    /\ pc' = [pc EXCEPT ![p] = "done"]
    /\ result' = [result EXCEPT ![p] = "Database"]
    /\ log' = [log EXCEPT ![p] =
                  Settled(@, "err", ~Batch(ciphers, cipher_stmts[p]).ok)]
    /\ UNCHANGED <<folders, ciphers, clock, uuid, ncalls, sub, payload, now,
                   folder_stmts, cipher_stmts, wrote>>

\* the response is sent and the call's locals are dropped
Return(p) ==
    /\ pc[p] = "done"
    /\ pc' = [pc EXCEPT ![p] = "idle"]
    /\ sub' = [sub EXCEPT ![p] = NULL]
    /\ payload' = [payload EXCEPT ![p] = EmptyPayload]
    /\ now' = [now EXCEPT ![p] = 0]
    /\ folder_stmts' = [folder_stmts EXCEPT ![p] = <<>>]
    /\ cipher_stmts' = [cipher_stmts EXCEPT ![p] = <<>>]
    /\ result' = [result EXCEPT ![p] = NULL]
    /\ log' = [log EXCEPT ![p] = <<>>]
    /\ wrote' = [wrote EXCEPT ![p] = NoWrites]
    /\ UNCHANGED <<folders, ciphers, clock, uuid, ncalls>>

\* a request arrives with a verified subject and a bundle
Request(p, B, limit) ==
    /\ ncalls < limit
    /\ \E claims_sub \in Users, pl \in B, t \in ClockReadings :
           import_data(p, claims_sub, pl, t)

\* the slot a new request takes: the first one, or the second while the
\* first is busy
Free(p) == p = "p1" \/ pc["p1"] # "idle"

\* concurrent requests of the isolate, MaxCalls calls in all
Next ==
    \E p \in Procs :
        \/ Free(p) /\ Request(p, Bundles, MaxCalls)
        \/ FolderBatchOk(p)
        \/ FolderBatchErr(p)
        \/ CipherBatchOk(p)
        \/ CipherBatchErr(p)
        \/ Return(p)

Spec == Init /\ [][Next]_vars

\* one call on empty storage, with relationships, client folder ids and
\* unencodable entries
NextOne ==
    \/ Request("p1", OneBundles, 1)
    \/ FolderBatchOk("p1")
    \/ FolderBatchErr("p1")
    \/ CipherBatchOk("p1")
    \/ CipherBatchErr("p1")
    \/ Return("p1")

SpecOne == Init /\ [][NextOne]_vars

\* calls one after the other, of either user, with bundles of at most
\* MaxSmall entries of each kind: relationships, client folder ids and
\* unencodable entries on storage that earlier calls have filled
NextTwo ==
    \/ Request("p1", SmallBundles, MaxCalls)
    \/ FolderBatchOk("p1")
    \/ FolderBatchErr("p1")
    \/ CipherBatchOk("p1")
    \/ CipherBatchErr("p1")
    \/ Return("p1")

SpecTwo == Init /\ [][NextTwo]_vars

\* the same with storage answering every batch it is given: the await of
\* lines 47 and 114 resolves, with Ok or with an error
FairSpecTwo ==
    /\ SpecTwo
    /\ WF_vars(FolderBatchOk("p1") \/ FolderBatchErr("p1"))
    /\ WF_vars(CipherBatchOk("p1") \/ CipherBatchErr("p1"))

\* ------------------------------------------------------------------ claims
Done(p) == pc[p] = "done"

LogHas(p, batch, outcome) ==
    \E i \in 1..Len(log[p]) : log[p][i].batch = batch /\ log[p][i].outcome = outcome

FolderRowsOf(id) == {i \in 1..Len(folders) : folders[i].id = id}

CipherRowsOf(id) == {i \in 1..Len(ciphers) : ciphers[i].id = id}

Mismatches(pl, claims_sub) ==
    {i \in 1..Len(pl.ciphers) : pl.ciphers[i].encrypted_for # claims_sub}

HasMismatch(pl, claims_sub) == Mismatches(pl, claims_sub) # {}

\* C1: however often and by whichever calls a folder id is submitted, the
\* folders table never holds two rows with one id; once a call's folder batch
\* has committed every folder id of its bundle has exactly one row; and no
\* folder batch ever fails on a conflicting id.
IdempotentFolders ==
    /\ \A i, j \in 1..Len(folders) : folders[i].id = folders[j].id => i = j
    /\ \A p \in Procs :
          LogHas(p, "folders", "ok") =>
              \A k \in 1..Len(payload[p].folders) :
                  Cardinality(FolderRowsOf(payload[p].folders[k].id)) = 1
    /\ \A p \in Procs : \A i \in 1..Len(log[p]) :
          log[p][i].batch = "folders" => ~log[p][i].conflict

\* a call that succeeded although its bundle names one id twice and that id
\* already had a row from an earlier import: its batch inserted nothing
IdempotentFoldersWitness ==
    \E p \in Procs :
        /\ Done(p) /\ result[p] = "Ok"
        /\ Len(payload[p].folders) = 2
        /\ payload[p].folders[1].id = payload[p].folders[2].id
        /\ LogHas(p, "folders", "ok")
        /\ wrote[p].folders = <<>>
        /\ \E i \in 1..Len(folders) :
              /\ folders[i].id = payload[p].folders[1].id
              /\ folders[i].user_id = sub[p]
              /\ folders[i].created_at # now[p]

\* C2: a step of a call whose bundle has a cipher entry declared for another
\* user never changes the ciphers table, and the call never ends with Ok.
OwnershipEnforced ==
    [][\A p \in Procs :
          (pc'[p] # pc[p] /\ HasMismatch(payload'[p], sub'[p])) =>
              /\ ciphers' = ciphers
              /\ result'[p] # "Ok"
              /\ wrote'[p].ciphers = <<>>]_vars

\* a rejected call whose first entry passed validation and whose second did
\* not, on a ciphers table that already had rows
OwnershipEnforcedWitness ==
    \E p \in Procs :
        /\ Done(p) /\ result[p] = "BadRequest"
        /\ Len(payload[p].ciphers) = 2
        /\ Mismatches(payload[p], sub[p]) = {2}
        /\ ciphers # <<>>
        /\ wrote[p].ciphers = <<>>

\* C3 as stated: a bundle with a mismatching entry always ends with BadRequest
MismatchAlwaysBadRequest ==
    \A p \in Procs :
        (Done(p) /\ HasMismatch(payload[p], sub[p])) => result[p] = "BadRequest"

FirstMismatch(pl, claims_sub) ==
    CHOOSE i \in Mismatches(pl, claims_sub) :
        \A j \in Mismatches(pl, claims_sub) : i <= j

UnencodableBefore(pl, i) == \E j \in 1..(i - 1) : pl.ciphers[j].fields = Unencodable

\* C3, amended: a bundle with a mismatching entry ends with Database when its
\* folder batch failed, with Internal when an entry before the first
\* mismatching one cannot be serialized, and with BadRequest otherwise.
MismatchOutcome ==
    \A p \in Procs :
        (Done(p) /\ HasMismatch(payload[p], sub[p])) =>
            result[p] =
                IF LogHas(p, "folders", "err") THEN "Database"
                ELSE IF UnencodableBefore(payload[p],
                                          FirstMismatch(payload[p], sub[p]))
                     THEN "Internal"
                ELSE "BadRequest"

\* a call rejected with BadRequest after its folder batch committed, whose
\* mismatching entry cannot be serialized either
MismatchOutcomeWitness ==
    \E p \in Procs :
        /\ Done(p) /\ result[p] = "BadRequest"
        /\ LogHas(p, "folders", "ok")
        /\ \E i \in Mismatches(payload[p], sub[p]) :
              payload[p].ciphers[i].fields = Unencodable

\* C4: cipher ids are unique in the table, and a call that ended with Ok
\* inserted exactly one row per cipher entry, in order, each carrying the
\* entry's content under the caller; so importing a bundle again adds rows
\* with new ids and the same content.
SameContent(row, import_cipher) ==
    /\ row.data = ToJson(CipherData(import_cipher))
    /\ row.organization_id = import_cipher.organization_id
    /\ row.type = import_cipher.type
    /\ row.favorite = import_cipher.favorite

NonIdempotentCiphers ==
    /\ \A i, j \in 1..Len(ciphers) : ciphers[i].id = ciphers[j].id => i = j
    /\ \A p \in Procs :
          (Done(p) /\ result[p] = "Ok") =>
              /\ Len(wrote[p].ciphers) = Len(payload[p].ciphers)
              /\ \A i \in 1..Len(wrote[p].ciphers) :
                    /\ SameContent(wrote[p].ciphers[i], payload[p].ciphers[i])
                    /\ wrote[p].ciphers[i].user_id = sub[p]
                    /\ Cardinality(CipherRowsOf(wrote[p].ciphers[i].id)) = 1

\* the second import of a two-cipher bundle: four rows, the last two written
\* by this call, equal in content to the first two and different in id
NonIdempotentCiphersWitness ==
    \E p \in Procs :
        /\ Done(p) /\ result[p] = "Ok"
        /\ Len(payload[p].ciphers) = 2
        /\ Len(ciphers) = 4
        /\ wrote[p].ciphers = <<ciphers[3], ciphers[4]>>
        /\ \A i \in 1..2 :
              /\ SameContent(ciphers[i], payload[p].ciphers[i])
              /\ ciphers[i].user_id = ciphers[i + 2].user_id
              /\ ciphers[i].id # ciphers[i + 2].id

\* a relationship pair whose two indices are positions of the bundle
Valid(pl, r) == r.key < Len(pl.ciphers) /\ r.value < Len(pl.folders)

\* C5: after a call that ended with Ok, every in-range pair that no later
\* in-range pair for the same cipher follows has put its folder's id into the
\* persisted row of its cipher, and an entry that no pair names and that came
\* without folder_id is persisted without one.
RelationshipResolution ==
    \A p \in Procs :
        LET pl == payload[p]
            rels == pl.folder_relationships
        IN  (Done(p) /\ result[p] = "Ok") =>
                /\ Len(wrote[p].ciphers) = Len(pl.ciphers)
                /\ \A k \in 1..Len(rels) :
                      (/\ Valid(pl, rels[k])
                       /\ ~\E j \in (k + 1)..Len(rels) :
                              rels[j].key = rels[k].key /\ Valid(pl, rels[j]))
                      => wrote[p].ciphers[rels[k].key + 1].folder_id
                             = pl.folders[rels[k].value + 1].id
                /\ \A i \in 1..Len(pl.ciphers) :
                      (/\ pl.ciphers[i].folder_id = NULL
                       /\ ~\E k \in 1..Len(rels) : rels[k].key = i - 1)
                      => wrote[p].ciphers[i].folder_id = NULL

\* folders [F0, F1], ciphers [C0, C1], relationship (1, 0): the row of C1
\* carries F0's id, the row of C0 no folder
RelationshipResolutionWitness ==
    \E p \in Procs :
        /\ Done(p) /\ result[p] = "Ok"
        /\ Len(payload[p].folders) = 2 /\ Len(payload[p].ciphers) = 2
        /\ payload[p].folders[1].id # payload[p].folders[2].id
        /\ payload[p].folder_relationships = <<[key |-> 1, value |-> 0]>>
        /\ ciphers = wrote[p].ciphers
        /\ ciphers[2].folder_id = payload[p].folders[1].id
        /\ ciphers[1].folder_id = NULL

\* C6: the call behaves as if the out-of-range pairs were not in the bundle:
\* the statements it binds, its outcome and the rows it inserts are those of
\* the bundle with only its in-range pairs (ids apart).
InRangeRels(pl) == SelectSeq(pl.folder_relationships, LAMBDA r : Valid(pl, r))

NoIds(rows) == [i \in 1..Len(rows) |-> [rows[i] EXCEPT !.id = NULL]]

OutOfRangeIgnored ==
    \A p \in Procs :
        LET pl == payload[p]
            expect == CipherLoop(ResolveRelationships(pl.ciphers, pl.folders,
                                                      InRangeRels(pl)),
                                 1, sub[p], now[p], 0, <<>>)
        IN  /\ pc[p] = "cipher_batch" =>
                NoIds(cipher_stmts[p]) = NoIds(expect.stmts)
            /\ (Done(p) /\ ~LogHas(p, "folders", "err")
                        /\ ~LogHas(p, "ciphers", "err")) =>
                /\ result[p] = expect.result
                /\ NoIds(wrote[p].ciphers) = NoIds(expect.stmts)

\* with two folders, a cipher assigned by the valid pair (0, 1) keeps that
\* assignment through the later pair (0, 2), whose folder index is out of range
OutOfRangeIgnoredWitness ==
    \E p \in Procs :
        /\ Done(p) /\ result[p] = "Ok"
        /\ Len(payload[p].folders) = 2 /\ Len(payload[p].ciphers) = 1
        /\ payload[p].ciphers[1].folder_id = NULL
        /\ payload[p].folder_relationships =
               <<[key |-> 0, value |-> 1], [key |-> 0, value |-> 2]>>
        /\ Len(ciphers) = 1
        /\ ciphers[1].folder_id = payload[p].folders[2].id

\* C7: every batch a call submits has at least one statement, a folder batch
\* only for a bundle with folder entries and a cipher batch only for one with
\* cipher entries; a bundle without folders and ciphers ends with Ok and no
\* batch submitted.
EmptyBatchesShortCircuit ==
    \A p \in Procs :
        /\ \A i \in 1..Len(log[p]) :
              /\ log[p][i].n > 0
              /\ log[p][i].batch = "folders" => payload[p].folders # <<>>
              /\ log[p][i].batch = "ciphers" => payload[p].ciphers # <<>>
        /\ (pc[p] # "idle" /\ payload[p].folders = <<>>
                           /\ payload[p].ciphers = <<>>) =>
              /\ Done(p) /\ result[p] = "Ok"
              /\ log[p] = <<>>
              /\ wrote[p] = NoWrites

\* an import of nothing but relationships
EmptyBatchesShortCircuitWitness ==
    \E p \in Procs :
        /\ Done(p) /\ result[p] = "Ok"
        /\ payload[p].folders = <<>> /\ payload[p].ciphers = <<>>
        /\ payload[p].folder_relationships # <<>>
        /\ log[p] = <<>>

\* C8: no batch of either of two overlapping calls fails on a conflicting id,
\* and when both have ended with Ok every folder id of either bundle has
\* exactly one row and each call has one row of its own per cipher entry.
ConcurrentImports ==
    /\ \A p \in Procs : \A i \in 1..Len(log[p]) : ~log[p][i].conflict
    /\ (\A p \in Procs : Done(p) /\ result[p] = "Ok") =>
          /\ \A p \in Procs : \A k \in 1..Len(payload[p].folders) :
                Cardinality(FolderRowsOf(payload[p].folders[k].id)) = 1
          /\ \A p \in Procs :
                /\ Len(wrote[p].ciphers) = Len(payload[p].ciphers)
                /\ \A i \in 1..Len(wrote[p].ciphers) :
                      \E j \in 1..Len(ciphers) : ciphers[j] = wrote[p].ciphers[i]
          /\ \A i \in 1..Len(wrote["p1"].ciphers) :
                \A j \in 1..Len(wrote["p2"].ciphers) :
                    wrote["p1"].ciphers[i].id # wrote["p2"].ciphers[j].id

\* two calls of one owner sharing a folder id, interleaved: the first call's
\* folder batch, the second's folder batch (ignored), the second's cipher
\* batch, the first's cipher batch
ConcurrentImportsWitness ==
    /\ \A p \in Procs : Done(p) /\ result[p] = "Ok"
    /\ sub["p1"] = sub["p2"]
    /\ Len(payload["p1"].folders) = 1 /\ Len(payload["p2"].folders) = 1
    /\ payload["p1"].folders[1].id = payload["p2"].folders[1].id
    /\ wrote["p1"].folders = folders
    /\ wrote["p2"].folders = <<>>
    /\ Len(ciphers) = 2
    /\ wrote["p2"].ciphers = <<ciphers[1]>>
    /\ wrote["p1"].ciphers = <<ciphers[2]>>

\* C9: when a call fails after its folder phase (rejected for a mismatch, a
\* serialization fault, or a failed cipher batch), every folder id of its
\* bundle has a row, the folder rows it inserted are still in the table, and
\* it has inserted no cipher row.
CipherPhaseFailed(p) ==
    /\ Done(p)
    /\ result[p] \in {"BadRequest", "Internal"} \/ LogHas(p, "ciphers", "err")

PartialCommit ==
    \A p \in Procs :
        CipherPhaseFailed(p) =>
            /\ \A k \in 1..Len(payload[p].folders) :
                  FolderRowsOf(payload[p].folders[k].id) # {}
            /\ \A i \in 1..Len(wrote[p].folders) :
                  \E j \in 1..Len(folders) : folders[j] = wrote[p].folders[i]
            /\ wrote[p].ciphers = <<>>

\* a rejected call has left its folder and nothing else in storage
PartialCommitWitness ==
    \E p \in Procs :
        /\ Done(p) /\ result[p] = "BadRequest"
        /\ payload[p].folders # <<>>
        /\ wrote[p].folders = folders
        /\ folders # <<>>
        /\ ciphers = <<>>

\* C10: every row a call inserts, folder or cipher, has created_at and
\* updated_at equal to the timestamp the call read when it started.
Stamped(rows, t) ==
    \A i \in 1..Len(rows) : rows[i].created_at = t /\ rows[i].updated_at = t

TimestampConsistency ==
    \A p \in Procs :
        /\ Stamped(wrote[p].folders, now[p])
        /\ Stamped(wrote[p].ciphers, now[p])
        /\ Stamped(folder_stmts[p], now[p])
        /\ Stamped(cipher_stmts[p], now[p])

\* a call that started at 1 and wrote a folder and a cipher, next to a folder
\* row of an earlier call stamped 0
TimestampConsistencyWitness ==
    \E p \in Procs :
        /\ Done(p) /\ result[p] = "Ok"
        /\ now[p] = 1
        /\ wrote[p].folders # <<>> /\ wrote[p].ciphers # <<>>
        /\ \E i \in 1..Len(folders) : folders[i].created_at = 0

\* the cipher loop came to serialize an entry it cannot encode: the folder
\* batch did not fail, the entry and all before it are the caller's, and all
\* before it are encodable
SerializationFault(p) ==
    /\ ~LogHas(p, "folders", "err")
    /\ \E i \in 1..Len(payload[p].ciphers) :
          /\ payload[p].ciphers[i].fields = Unencodable
          /\ \A j \in 1..i : payload[p].ciphers[j].encrypted_for = sub[p]
          /\ \A j \in 1..(i - 1) : payload[p].ciphers[j].fields # Unencodable

\* C11: a call ends with BadRequest only if an entry of its bundle is declared
\* for another user; a call whose folder or cipher batch failed ends with
\* Database, and a call that hit a serialization fault ends with Internal.
OutcomeKinds ==
    \A p \in Procs :
        Done(p) =>
            /\ result[p] \in {"Ok", "BadRequest", "Internal", "Database"}
            /\ result[p] = "BadRequest" => HasMismatch(payload[p], sub[p])
            /\ (LogHas(p, "folders", "err") \/ LogHas(p, "ciphers", "err"))
                   => result[p] = "Database"
            /\ SerializationFault(p) => result[p] = "Internal"

\* a call that ended with Internal on its first entry although a later entry
\* is declared for another user
OutcomeKindsWitness ==
    \E p \in Procs :
        /\ Done(p) /\ result[p] = "Internal"
        /\ LogHas(p, "folders", "ok")
        /\ Len(payload[p].ciphers) = 2
        /\ payload[p].ciphers[1].fields = Unencodable
        /\ Mismatches(payload[p], sub[p]) = {2}

\* C12: the persisted folder_id of every cipher is decided by the last
\* in-range pair that names it, whatever pairs come before: it is the id of
\* that pair's folder, and the submitted folder_id when no in-range pair
\* names the cipher.
PairsFor(pl, i) ==
    {k \in 1..Len(pl.folder_relationships) :
        /\ pl.folder_relationships[k].key = i - 1
        /\ Valid(pl, pl.folder_relationships[k])}

Last(ks) == CHOOSE k \in ks : \A j \in ks : j <= k

LastWriteWins ==
    \A p \in Procs :
        (Done(p) /\ result[p] = "Ok") =>
            /\ Len(wrote[p].ciphers) = Len(payload[p].ciphers)
            /\ \A i \in 1..Len(payload[p].ciphers) :
                  wrote[p].ciphers[i].folder_id =
                      IF PairsFor(payload[p], i) = {}
                      THEN payload[p].ciphers[i].folder_id
                      ELSE payload[p].folders[
                               payload[p].folder_relationships[
                                   Last(PairsFor(payload[p], i))].value + 1].id

\* two in-range pairs for the first cipher naming different folders: its row
\* carries the id of the second pair's folder
LastWriteWinsWitness ==
    \E p \in Procs :
        /\ Done(p) /\ result[p] = "Ok"
        /\ Len(payload[p].folders) = 2
        /\ payload[p].folders[1].id # payload[p].folders[2].id
        /\ payload[p].folder_relationships =
               <<[key |-> 0, value |-> 1], [key |-> 0, value |-> 0]>>
        /\ ciphers # <<>>
        /\ ciphers[1].folder_id = payload[p].folders[1].id

\* C13: a cipher batch is submitted only after every folder batch of the call
\* ended ok, and second when the bundle has folders; a failed folder batch
\* ends the call with Database with no cipher statement bound, no cipher
\* batch submitted and nothing written; a failed cipher batch ends it with
\* Database.
PhaseOrdering ==
    \A p \in Procs :
        /\ \A i \in 1..Len(log[p]) :
              log[p][i].batch = "ciphers" =>
                  /\ \A j \in 1..(i - 1) :
                        log[p][j].batch = "folders" /\ log[p][j].outcome = "ok"
                  /\ payload[p].folders # <<>> => i = 2
        /\ LogHas(p, "folders", "err") =>
              /\ Done(p) /\ result[p] = "Database"
              /\ Len(log[p]) = 1
              /\ cipher_stmts[p] = <<>>
              /\ wrote[p] = NoWrites
        /\ LogHas(p, "ciphers", "err") => Done(p) /\ result[p] = "Database"

\* a failed folder batch ended a call whose only cipher entry is declared for
\* another user: Database, not BadRequest, and one batch in the log
PhaseOrderingWitness ==
    \E p \in Procs :
        /\ Done(p) /\ result[p] = "Database"
        /\ LogHas(p, "folders", "err")
        /\ Len(payload[p].ciphers) = 1
        /\ Mismatches(payload[p], sub[p]) = {1}

\* C14: a call submits each of its two batches at most once, a failed batch
\* is the last thing in its log, a call has a result exactly when it is done
\* and the result is one of the four outcomes; a done call changes neither
\* its result nor its log nor storage; and every call that awaits a batch
\* comes to be done.
AtMostOnce(p, batch) ==
    Cardinality({i \in 1..Len(log[p]) : log[p][i].batch = batch}) <= 1

OneOutcome(p) ==
    /\ AtMostOnce(p, "folders") /\ AtMostOnce(p, "ciphers")
    /\ \A i \in 1..Len(log[p]) :
          log[p][i].outcome = "err" => i = Len(log[p]) /\ Done(p)
    /\ result[p] # NULL <=> Done(p)
    /\ Done(p) => result[p] \in {"Ok", "BadRequest", "Internal", "Database"}
    /\ (Done(p) /\ result[p] # "Ok") => wrote[p].ciphers = <<>>

NoRetryTerminal ==
    /\ [](\A p \in Procs : OneOutcome(p))
    /\ [][\A p \in Procs :
             (Done(p) /\ pc'[p] = "done") =>
                 /\ result'[p] = result[p]
                 /\ log'[p] = log[p]
                 /\ wrote'[p] = wrote[p]]_vars
    /\ \A p \in Procs : (pc[p] \in {"folder_batch", "cipher_batch"}) ~> Done(p)

\* a call whose cipher batch failed after its folder batch went in: two
\* batches in its log, the failed one last, the folder rows written
NoRetryTerminalWitness ==
    \E p \in Procs :
        /\ Done(p) /\ result[p] = "Database"
        /\ Len(log[p]) = 2
        /\ log[p][1].outcome = "ok" /\ log[p][2].outcome = "err"
        /\ wrote[p].folders # <<>>

\* C15: every folder statement a call binds has the caller as user_id and
\* the id of the entry at its position, every folder row it inserts is one of
\* those statements, every cipher statement and row has the caller as
\* user_id, and a call that inserted cipher rows has a bundle whose entries
\* are all declared for the caller.
OwnerAttribution ==
    \A p \in Procs :
        /\ pc[p] # "idle" => Len(folder_stmts[p]) = Len(payload[p].folders)
        /\ \A i \in 1..Len(folder_stmts[p]) :
              /\ folder_stmts[p][i].user_id = sub[p]
              /\ folder_stmts[p][i].id = payload[p].folders[i].id
        /\ \A i \in 1..Len(wrote[p].folders) :
              /\ wrote[p].folders[i].user_id = sub[p]
              /\ \E k \in 1..Len(folder_stmts[p]) :
                    folder_stmts[p][k] = wrote[p].folders[i]
        /\ \A i \in 1..Len(cipher_stmts[p]) : cipher_stmts[p][i].user_id = sub[p]
        /\ \A i \in 1..Len(wrote[p].ciphers) : wrote[p].ciphers[i].user_id = sub[p]
        /\ wrote[p].ciphers # <<>> =>
              /\ Len(wrote[p].ciphers) = Len(payload[p].ciphers)
              /\ \A i \in 1..Len(payload[p].ciphers) :
                    payload[p].ciphers[i].encrypted_for = sub[p]

\* a call of u2 that wrote a folder and a cipher next to rows of u1
OwnerAttributionWitness ==
    \E p \in Procs :
        /\ Done(p) /\ result[p] = "Ok" /\ sub[p] = "u2"
        /\ wrote[p].folders # <<>> /\ wrote[p].ciphers # <<>>
        /\ \E i \in 1..Len(folders) : folders[i].user_id = "u1"
        /\ \E i \in 1..Len(ciphers) : ciphers[i].user_id = "u1"

\* C16: no step changes or removes a row the folders table holds, no folder
\* batch fails on a conflicting id, and of the entries of one bundle with the
\* same id the first is the one inserted.
FolderConflictKeepsRow ==
    /\ [][/\ Len(folders') >= Len(folders)
          /\ \A i \in 1..Len(folders) : folders'[i] = folders[i]]_vars
    /\ [](\A p \in Procs :
             /\ \A i \in 1..Len(log[p]) : ~log[p][i].conflict
             /\ \A i \in 1..Len(wrote[p].folders) :
                   \A k \in 1..Len(folder_stmts[p]) :
                       folder_stmts[p][k].id = wrote[p].folders[i].id =>
                           \E j \in 1..k : folder_stmts[p][j] = wrote[p].folders[i])

\* a call that ended with Ok after submitting, under another name, a folder
\* id whose row belongs to the other user: the row is as it was
FolderConflictKeepsRowWitness ==
    \E p \in Procs :
        /\ Done(p) /\ result[p] = "Ok"
        /\ Len(payload[p].folders) = 1
        /\ wrote[p].folders = <<>>
        /\ \E i \in 1..Len(folders) :
              /\ folders[i].id = payload[p].folders[1].id
              /\ folders[i].user_id # sub[p]
              /\ folders[i].name # payload[p].folders[1].name
              /\ folders[i].created_at # now[p]

\* C17 as stated: every cipher row whose folder_id the resolver assigned
\* (a folder id of a bundle) references a stored folder row of the same owner
FolderReferencesOwned ==
    \A i \in 1..Len(ciphers) :
        ciphers[i].folder_id \in FolderIds =>
            \E j \in 1..Len(folders) :
                /\ folders[j].id = ciphers[i].folder_id
                /\ folders[j].user_id = ciphers[i].user_id

\* C18: every step keeps the rows of the ciphers table where they are, and
\* the rows owned by a user change only in the step that commits the cipher
\* batch of a call of that user.
RowsOf(table, u) == SelectSeq(table, LAMBDA r : r.user_id = u)

AppendOnly ==
    [][/\ Len(ciphers') >= Len(ciphers)
       /\ \A i \in 1..Len(ciphers) : ciphers'[i] = ciphers[i]
       /\ \A u \in Users :
             RowsOf(ciphers', u) # RowsOf(ciphers, u) =>
                 \E p \in Procs :
                     /\ pc[p] = "cipher_batch" /\ pc'[p] = "done"
                     /\ sub[p] = u]_vars

\* u2 has imported a cipher into a table holding a row of u1: that row is
\* first and u2's new row follows it
AppendOnlyWitness ==
    \E p \in Procs :
        /\ Done(p) /\ result[p] = "Ok" /\ sub[p] = "u2"
        /\ Len(ciphers) = 2
        /\ ciphers[1].user_id = "u1"
        /\ wrote[p].ciphers = <<ciphers[2]>>

====
